---- MODULE Spec2Model ----
(***************************************************************************)
(* A model of crates/ra_ide_db/src/change.rs: the change batch             *)
(* (AnalysisChange) and the operations of RootDatabase that apply it to    *)
(* the salsa input store (request_cancellation, apply_change) and that     *)
(* sweep the memo tables (maybe_collect_garbage, collect_garbage,          *)
(* per_query_memory_usage).                                                *)
(*                                                                         *)
(* The salsa engine itself is an external collaborator.  Its primitives    *)
(* (synthetic_write, set_<input>_with_durability, reading an input, the    *)
(* sweep of a memo table) are modelled at their interface: every write     *)
(* advances the revision by one, an input slot keeps the last value and    *)
(* durability written to it, reading a slot that was never written         *)
(* panics, and a sweep discards the values, or the whole entries, of the   *)
(* table it is made on.                                                    *)
(***************************************************************************)
EXTENDS Integers, Sequences, FiniteSets, TLC

\* ---------------------------------------------------------------- bounds

\* FileIds are 1..MaxFileId.
MaxFileId == 2
\* A root set holds at most MaxRoots source roots (SourceRootIds 0..MaxRoots-1).
MaxRoots == 2
\* A change batch holds at most MaxChanges files-changed entries.
MaxChanges == 2
\* The revision clock is capped: no call is started that would pass it.
MaxRevision == 11
\* The reader computations that run beside the writer.
MaxReaders == 2
\* The apply_change calls the writer thread makes beside the readers.
MaxConcCalls == 2
\* A memo table holds at most MaxMemoKeys entries (argument keys 1..MaxMemoKeys).
MaxMemoKeys == 1
\* A caller makes at most MaxBuilderCalls set_roots, change_file and
\* set_crate_graph calls on one batch.
MaxBuilderCalls == 4
\* A caller builds and applies at most MaxBatches batches.
MaxBatches == 2
\* The clock of the GC runs is capped at MaxClock milliseconds.
MaxClock == 150
\* The revisions the GC runs see are 0..MaxGcRevision.
MaxGcRevision == 1

FileIds == 1..MaxFileId
SourceRootIds == 0..(MaxRoots - 1)

\* ------------------------------------------------------------ data model

\* Option<T>: None is the empty sequence, Some(v) the one-element sequence.
None == <<>>
Some(v) == <<v>>
IsSome(o) == Len(o) = 1
Unwrap(o) == o[1]

\* salsa::Durability, the two levels change.rs uses.
LOW == "LOW"
HIGH == "HIGH"

\* SourceRoot: a set of files and the is_library flag.
SourceRoots == [files : SUBSET FileIds, is_library : BOOLEAN]

\* File texts: Arc<String>.  The default String is the empty string.
Texts == {"", "a"}
CrateGraphs == {"g1", "g2"}

\* fn durability(source_root)
durability(source_root) ==
    IF source_root.is_library THEN HIGH ELSE LOW

\* An input slot as the engine keeps it: the value and the durability of the
\* last write.
Slot(v, d) == [value |-> v, durability |-> d]

\* The database right after construction: the revision clock at 0 and no
\* input written.
EmptyDb ==
    [ revision         |-> 0,
      file_source_root |-> [f \in FileIds |-> None],
      source_root      |-> [i \in SourceRootIds |-> None],
      local_roots      |-> None,
      library_roots    |-> None,
      file_text        |-> [f \in FileIds |-> None],
      crate_graph      |-> None ]

\* The state one operation runs on: the database, the engine writes the
\* operation has made so far (in order), and whether it has panicked.
Exec(db) == [db |-> db, writes |-> <<>>, panicked |-> FALSE]

Write(slot, key, d) == [slot |-> slot, key |-> key, durability |-> d]

\* ----------------------------------------------------- the engine's writes

\* salsa_runtime_mut().synthetic_write(d): a write with no payload; only
\* the revision clock moves.
synthetic_write(s, d) ==
    [s EXCEPT !.db.revision = @ + 1,
              !.writes = Append(@, Write("synthetic_write", 0, d))]

set_file_source_root_with_durability(s, file_id, root_id, d) ==
    [s EXCEPT !.db.revision = @ + 1,
              !.db.file_source_root[file_id] = Some(Slot(root_id, d)),
              !.writes = Append(@, Write("file_source_root", file_id, d))]

set_source_root_with_durability(s, root_id, root, d) ==
    [s EXCEPT !.db.revision = @ + 1,
              !.db.source_root[root_id] = Some(Slot(root, d)),
              !.writes = Append(@, Write("source_root", root_id, d))]

set_local_roots_with_durability(s, roots, d) ==
    [s EXCEPT !.db.revision = @ + 1,
              !.db.local_roots = Some(Slot(roots, d)),
              !.writes = Append(@, Write("local_roots", 0, d))]

set_library_roots_with_durability(s, roots, d) ==
    [s EXCEPT !.db.revision = @ + 1,
              !.db.library_roots = Some(Slot(roots, d)),
              !.writes = Append(@, Write("library_roots", 0, d))]

set_file_text_with_durability(s, file_id, text, d) ==
    [s EXCEPT !.db.revision = @ + 1,
              !.db.file_text[file_id] = Some(Slot(text, d)),
              !.writes = Append(@, Write("file_text", file_id, d))]

set_crate_graph_with_durability(s, graph, d) ==
    [s EXCEPT !.db.revision = @ + 1,
              !.db.crate_graph = Some(Slot(graph, d)),
              !.writes = Append(@, Write("crate_graph", 0, d))]

\* Reading an input that was never written panics: the operation stops
\* where it is, with the writes it has made so far left in place.
Panic(s) == [s EXCEPT !.panicked = TRUE]

\* ------------------------------------------------------- AnalysisChange

\* AnalysisChange::new(): no roots, no files changed, no crate graph.
AnalysisChange_new ==
    [roots |-> None, files_changed |-> <<>>, crate_graph |-> None]

set_roots(change, roots) == [change EXCEPT !.roots = Some(roots)]

\* Mutant of change_file: the entry is put before the earlier ones.
change_file_Prepend(change, file_id, new_text) ==
    [change EXCEPT !.files_changed = <<<<file_id, new_text>>>> \o @]

change_file(change, file_id, new_text) ==
    [change EXCEPT !.files_changed = Append(@, <<file_id, new_text>>)]

set_crate_graph(change, graph) == [change EXCEPT !.crate_graph = Some(graph)]

\* ----------------------------------------------------------- RootDatabase

\* Mutants of request_cancellation: no write at all; a write at HIGH.
request_cancellation_NoWrite(s) == s
request_cancellation_High(s) == synthetic_write(s, HIGH)

\* RootDatabase::request_cancellation
request_cancellation(s) == synthetic_write(s, LOW)

\* text.unwrap_or_default(): no text is the empty string.
unwrap_or_default(text) == IF IsSome(text) THEN Unwrap(text) ELSE ""

Min(S) == CHOOSE x \in S : \A y \in S : x <= y
Max(S) == CHOOSE x \in S : \A y \in S : y <= x

\* for file_id in root.iter() { set_file_source_root_with_durability(..) }
\* (the files of a root are visited in ascending FileId order here; the
\* writes of one root touch different slots, so their order changes nothing
\* but the order of the log).
RECURSIVE SetFileSourceRoots(_, _, _, _)
SetFileSourceRoots(s, files, root_id, d) ==
    IF files = {} THEN s
    ELSE LET file_id == Min(files)
         IN  SetFileSourceRoots(
                 set_file_source_root_with_durability(s, file_id, root_id, d),
                 files \ {file_id}, root_id, d)

\* Mutant of InstallRoot: the file-to-root mappings are written at LOW
\* whatever the root is.
InstallRoot_MappingsLow(s, root, pos) ==
    LET root_id == pos - 1
        d       == durability(root)
    IN  set_source_root_with_durability(
            SetFileSourceRoots(s, root.files, root_id, LOW), root_id, root, d)

\* One iteration of `for (idx, root) in roots.into_iter().enumerate()`;
\* pos is the 1-based position, so idx = pos - 1.
InstallRoot(s, root, pos) ==
    LET root_id == pos - 1
        d       == durability(root)
    IN  set_source_root_with_durability(
            SetFileSourceRoots(s, root.files, root_id, d), root_id, root, d)

RECURSIVE InstallRoots(_, _, _)
InstallRoots(s, roots, pos) ==
    IF pos > Len(roots) THEN s
    ELSE InstallRoots(InstallRoot(s, roots[pos], pos), roots, pos + 1)

\* The two sets the roots loop collects.
LocalRootsOf(roots) ==
    {pos - 1 : pos \in {p \in 1..Len(roots) : ~roots[p].is_library}}
LibraryRootsOf(roots) ==
    {pos - 1 : pos \in {p \in 1..Len(roots) : roots[p].is_library}}

\* Mutant of ApplyRoots: local_roots written at LOW, the durability of its
\* members, instead of HIGH.
ApplyRoots_MemberDurability(s, roots) ==
    set_library_roots_with_durability(
        set_local_roots_with_durability(
            InstallRoots(s, roots, 1), LocalRootsOf(roots), LOW),
        LibraryRootsOf(roots), HIGH)

\* if let Some(roots) = change.roots { .. }
ApplyRoots(s, roots) ==
    set_library_roots_with_durability(
        set_local_roots_with_durability(
            InstallRoots(s, roots, 1), LocalRootsOf(roots), HIGH),
        LibraryRootsOf(roots), HIGH)

\* Mutant of ApplyFile: every text is written at LOW.
ApplyFile_AlwaysLow(s, entry) ==
    LET file_id == entry[1]
        fsr     == s.db.file_source_root[file_id]
    IN  IF ~IsSome(fsr) THEN Panic(s)
        ELSE IF ~IsSome(s.db.source_root[Unwrap(fsr).value]) THEN Panic(s)
        ELSE set_file_text_with_durability(
                 s, file_id, unwrap_or_default(entry[2]), LOW)

\* Mutant of ApplyFile: an entry without text removes the file, its text
\* and its root mapping.
ApplyFile_RemoveOnNone(s, entry) ==
    LET file_id == entry[1]
        fsr     == s.db.file_source_root[file_id]
    IN  IF ~IsSome(fsr) THEN Panic(s)
        ELSE IF ~IsSome(s.db.source_root[Unwrap(fsr).value]) THEN Panic(s)
        ELSE IF ~IsSome(entry[2])
             THEN [s EXCEPT !.db.revision = @ + 1,
                            !.db.file_text[file_id] = None,
                            !.db.file_source_root[file_id] = None,
                            !.writes = Append(@, Write("file_text", file_id,
                                durability(Unwrap(s.db.source_root[
                                    Unwrap(fsr).value]).value)))]
             ELSE set_file_text_with_durability(
                      s, file_id, Unwrap(entry[2]),
                      durability(Unwrap(s.db.source_root[
                          Unwrap(fsr).value]).value))

\* One iteration of `for (file_id, text) in change.files_changed`.
ApplyFile(s, entry) ==
    LET file_id == entry[1]
        text    == entry[2]
        fsr     == s.db.file_source_root[file_id]
    IN  IF ~IsSome(fsr) THEN Panic(s)
        ELSE LET source_root == s.db.source_root[Unwrap(fsr).value]
             IN  IF ~IsSome(source_root) THEN Panic(s)
                 ELSE set_file_text_with_durability(
                          s, file_id, unwrap_or_default(text),
                          durability(Unwrap(source_root).value))

\* Mutant of ApplyFiles: the entries are applied last to first.
RECURSIVE ApplyFiles_LastFirst(_, _, _)
ApplyFiles_LastFirst(s, files_changed, pos) ==
    IF s.panicked \/ pos > Len(files_changed) THEN s
    ELSE ApplyFiles_LastFirst(
             ApplyFile(s, files_changed[Len(files_changed) + 1 - pos]),
             files_changed, pos + 1)

RECURSIVE ApplyFiles(_, _, _)
ApplyFiles(s, files_changed, pos) ==
    IF s.panicked \/ pos > Len(files_changed) THEN s
    ELSE ApplyFiles(ApplyFile(s, files_changed[pos]), files_changed, pos + 1)

\* Mutant of ApplyCrateGraph: the crate graph is written at LOW.
ApplyCrateGraph_Low(s, crate_graph) ==
    IF s.panicked \/ ~IsSome(crate_graph) THEN s
    ELSE set_crate_graph_with_durability(s, Unwrap(crate_graph), LOW)

\* if let Some(crate_graph) = change.crate_graph { .. }
ApplyCrateGraph(s, crate_graph) ==
    IF s.panicked \/ ~IsSome(crate_graph) THEN s
    ELSE set_crate_graph_with_durability(s, Unwrap(crate_graph), HIGH)

\* Mutant of ApplyChangeSteps: the cancellation is made last, after the
\* input writes.
ApplyChangeSteps_CancelLast == <<"roots", "files", "graph", "cancel">>

\* The blocks of apply_change in the order the code runs them: the
\* cancellation, the roots, the files-changed entries, the crate graph.
ApplyChangeSteps == <<"cancel", "roots", "files", "graph">>

\* What one block of apply_change does.
StepEffect(step, s, change) ==
    CASE step = "cancel" -> request_cancellation(s)
      [] step = "roots"  -> IF IsSome(change.roots)
                            THEN ApplyRoots(s, Unwrap(change.roots))
                            ELSE s
      [] step = "files"  -> ApplyFiles(s, change.files_changed, 1)
      [] step = "graph"  -> ApplyCrateGraph(s, change.crate_graph)

RECURSIVE RunSteps(_, _, _, _)
RunSteps(s, change, steps, k) ==
    IF k > Len(steps) \/ s.panicked THEN s
    ELSE RunSteps(StepEffect(steps[k], s, change), change, steps, k + 1)

\* Mutant of apply_change: the cancellation write is made after the roots
\* are installed.
apply_change_CancelAfterRoots(s, change) ==
    RunSteps(s, change, <<"roots", "cancel", "files", "graph">>, 1)

\* Mutant of apply_change: the file texts are written before the roots are
\* installed.
apply_change_FilesFirst(s, change) ==
    RunSteps(s, change, <<"cancel", "files", "roots", "graph">>, 1)

\* RootDatabase::apply_change
apply_change(s, change) == RunSteps(s, change, ApplyChangeSteps, 1)

\* ------------------------------------------------------------ the inputs

RECURSIVE SumFiles(_, _)
SumFiles(roots, pos) ==
    IF pos > Len(roots) THEN 0
    ELSE Cardinality(roots[pos].files) + SumFiles(roots, pos + 1)

\* The number of engine writes apply_change makes for a batch that does not
\* panic: the cancellation write, one per file of a root, one per root, two
\* for the aggregate sets, one per files-changed entry, one for the graph.
RootsCost(roots) ==
    IF IsSome(roots) THEN Len(Unwrap(roots)) + SumFiles(Unwrap(roots), 1) + 2
    ELSE 0
Cost(change) ==
    1 + RootsCost(change.roots) + Len(change.files_changed)
      + (IF IsSome(change.crate_graph) THEN 1 ELSE 0)

\* Sequences over S of length at most n.
SeqsUpTo(S, n) == UNION {[1..k -> S] : k \in 0..n}

FileChanges == FileIds \X ({None} \cup {Some(t) : t \in Texts \ {""}})
OptRootSets == {None} \cup {Some(rs) : rs \in SeqsUpTo(SourceRoots, MaxRoots)}
OptCrateGraphs == {None} \cup {Some(g) : g \in CrateGraphs}

FileChangeSeqs == SeqsUpTo(FileChanges, MaxChanges)

\* The batch a caller builds with set_roots, one change_file call per entry
\* and set_crate_graph.
RECURSIVE ChangeFiles(_, _, _)
ChangeFiles(change, files, pos) ==
    IF pos > Len(files) THEN change
    ELSE ChangeFiles(change_file(change, files[pos][1], files[pos][2]),
                     files, pos + 1)

BuildChange(roots, files, graph) ==
    LET c1 == IF IsSome(roots) THEN set_roots(AnalysisChange_new, Unwrap(roots))
              ELSE AnalysisChange_new
        c2 == ChangeFiles(c1, files, 1)
    IN  IF IsSome(graph) THEN set_crate_graph(c2, Unwrap(graph)) ELSE c2

\* ------------------------------------------- memo tables, GC and profiling

\* A build with the "wasm" feature or without it: cfg!(feature = "wasm").
Builds == BOOLEAN

\* const GC_COOLDOWN: 100 ms.
GC_COOLDOWN == 100

\* The tables collect_garbage sweeps, in the order it sweeps them.
CollectGarbageQueries ==
    << "ParseQuery", "ParseMacroQuery", "AstIdMapQuery",
       "BodyWithSourceMapQuery", "ExprScopesQuery", "InferQueryQuery",
       "BodyQuery" >>

\* The tables sweep_each_query! is given in per_query_memory_usage, by the
\* database trait they belong to.
SourceDatabaseQueries == << "ParseQuery", "SourceRootCratesQuery" >>

AstDatabaseQueries ==
    << "AstIdMapQuery", "InternMacroQuery", "MacroArgQuery", "MacroDefQuery",
       "ParseMacroQuery", "MacroExpandQuery", "InternEagerExpansionQuery" >>

DefDatabaseQueries ==
    << "CrateDefMapQueryQuery", "StructDataQuery", "UnionDataQuery",
       "EnumDataQuery", "ImplDataQuery", "TraitDataQuery",
       "TypeAliasDataQuery", "FunctionDataQuery", "ConstDataQuery",
       "StaticDataQuery", "BodyWithSourceMapQuery", "BodyQuery",
       "ExprScopesQuery", "GenericParamsQuery", "AttrsQuery",
       "ModuleLangItemsQuery", "CrateLangItemsQuery", "LangItemQuery",
       "DocumentationQuery", "ImportMapQuery" >>

InternDatabaseQueries ==
    << "InternFunctionQuery", "InternStructQuery", "InternUnionQuery",
       "InternEnumQuery", "InternConstQuery", "InternStaticQuery",
       "InternTraitQuery", "InternTypeAliasQuery", "InternImplQuery" >>

HirDatabaseQueries ==
    << "InferQueryQuery", "TyQuery", "ValueTyQuery", "ImplSelfTyQuery",
       "ImplTraitQuery", "FieldTypesQuery", "CallableItemSignatureQuery",
       "GenericPredicatesForParamQuery", "GenericPredicatesQuery",
       "GenericDefaultsQuery", "ImplsInCrateQuery", "ImplsFromDepsQuery",
       "InternTypeCtorQuery", "InternTypeParamIdQuery",
       "InternChalkImplQuery", "InternAssocTyValueQuery",
       "AssociatedTyDataQuery", "TraitDatumQuery", "StructDatumQuery",
       "ImplDatumQuery", "AssociatedTyValueQuery", "TraitSolveQuery",
       "ReturnTypeImplTraitsQuery" >>

SymbolsDatabaseQueries == << "FileSymbolsQuery" >>

LineIndexDatabaseQueries == << "LineIndexQuery" >>

\* Mutant of PerQueryMemoryUsageQueries: the SourceDatabase tables left out.
PerQueryMemoryUsageQueries_NoSourceDatabase ==
    AstDatabaseQueries \o DefDatabaseQueries \o InternDatabaseQueries
        \o HirDatabaseQueries \o SymbolsDatabaseQueries
        \o LineIndexDatabaseQueries

\* The tables per_query_memory_usage sweeps, in the order it sweeps them.
PerQueryMemoryUsageQueries ==
    SourceDatabaseQueries \o AstDatabaseQueries \o DefDatabaseQueries
        \o InternDatabaseQueries \o HirDatabaseQueries
        \o SymbolsDatabaseQueries \o LineIndexDatabaseQueries

Range(seq) == {seq[i] : i \in DOMAIN seq}

\* The memo tables of the database.
Queries == Range(PerQueryMemoryUsageQueries) \cup Range(CollectGarbageQueries)

\* A memo table holds one entry per argument key.
MemoKeys == 1..MaxMemoKeys

\* A memo entry: the cached value (its bytes; none once discarded), the
\* dependency-edge record (its bytes) and the revision it was verified at.
MemoEntry(value_bytes, deps_bytes, revision) ==
    [value |-> Some(value_bytes), deps |-> deps_bytes, verified_at |-> revision]

EntryBytes(e) ==
    IF e = None THEN 0
    ELSE Unwrap(e).deps + (IF IsSome(Unwrap(e).value) THEN Unwrap(Unwrap(e).value) ELSE 0)

RECURSIVE TableBytes(_, _)
TableBytes(table, k) ==
    IF k > MaxMemoKeys THEN 0 ELSE EntryBytes(table[k]) + TableBytes(table, k + 1)

EmptyMemo == [q \in Queries |-> [k \in MemoKeys |-> None]]

\* salsa::SweepStrategy and its builders.
SweepStrategy_default == [discard_if |-> "Never", discard_what |-> "Nothing"]

discard_values(strategy) ==
    [strategy EXCEPT !.discard_what = IF @ = "Everything" THEN @ ELSE "Values"]

discard_everything(strategy) == [strategy EXCEPT !.discard_what = "Everything"]

sweep_outdated(strategy) ==
    [strategy EXCEPT !.discard_if = IF @ = "Always" THEN @ ELSE "Outdated"]

sweep_all_revisions(strategy) == [strategy EXCEPT !.discard_if = "Always"]

\* What a sweep with the strategy leaves of one entry, at the revision the
\* database is at.
SweepEntry(e, strategy, revision) ==
    IF e = None THEN None
    ELSE LET m   == Unwrap(e)
             hit == \/ strategy.discard_if = "Always"
                    \/ /\ strategy.discard_if = "Outdated"
                       /\ m.verified_at < revision
         IN  IF ~hit \/ strategy.discard_what = "Nothing" THEN e
             ELSE IF strategy.discard_what = "Values"
                  THEN Some([m EXCEPT !.value = None])
                  ELSE None

SweepTable(table, strategy, revision) ==
    [k \in MemoKeys |-> SweepEntry(table[k], strategy, revision)]

\* self.query(q).sweep(strategy): the table is swept and the allocator gets
\* the bytes of what was discarded back.
query_sweep(g, q, strategy, revision) ==
    LET table == SweepTable(g.memo[q], strategy, revision)
    IN  [g EXCEPT !.memo[q] = table,
                  !.allocated = @ - (TableBytes(g.memo[q], 1) - TableBytes(table, 1)),
                  !.sweeps = Append(@, [query |-> q, strategy |-> strategy])]

\* memory_usage().allocated
memory_usage_allocated(g) == g.allocated

\* Instant::elapsed
elapsed(instant, now) == now - instant

\* Mutant of CooldownExpired: the cooldown counts as expired when exactly
\* GC_COOLDOWN has elapsed.
CooldownExpired_AtLeast(g, now) == elapsed(g.last_gc_check, now) >= GC_COOLDOWN

\* self.last_gc_check.elapsed() > GC_COOLDOWN
CooldownExpired(g, now) == elapsed(g.last_gc_check, now) > GC_COOLDOWN

\* Mutant of maybe_collect_garbage: an expired cooldown also stamps last_gc.
maybe_collect_garbage_StampsGc(g, build_wasm, now) ==
    IF build_wasm THEN g
    ELSE IF CooldownExpired(g, now)
    THEN [g EXCEPT !.last_gc_check = now, !.last_gc = now]
    ELSE g

\* pub fn maybe_collect_garbage(&mut self)
maybe_collect_garbage(g, build_wasm, now) ==
    IF build_wasm THEN g
    ELSE IF CooldownExpired(g, now) THEN [g EXCEPT !.last_gc_check = now]
    ELSE g

\* Mutant of CollectGarbageSweep: only values of entries not verified at the
\* current revision are discarded.
CollectGarbageSweep_Outdated ==
    sweep_outdated(discard_values(SweepStrategy_default))

\* SweepStrategy::default().discard_values().sweep_all_revisions()
CollectGarbageSweep == sweep_all_revisions(discard_values(SweepStrategy_default))

RECURSIVE SweepQueries(_, _, _, _, _)
SweepQueries(g, queries, strategy, revision, pos) ==
    IF pos > Len(queries) THEN g
    ELSE SweepQueries(query_sweep(g, queries[pos], strategy, revision),
                      queries, strategy, revision, pos + 1)

\* Mutant of collect_garbage: the sweep is gated by the cooldown, counted
\* from last_gc.
collect_garbage_Cooldown(g, build_wasm, now, revision) ==
    IF build_wasm THEN g
    ELSE IF elapsed(g.last_gc, now) > GC_COOLDOWN
    THEN SweepQueries([g EXCEPT !.last_gc = now], CollectGarbageQueries,
                      CollectGarbageSweep, revision, 1)
    ELSE g

\* Mutant of collect_garbage: the collection starts with a synthetic write.
collect_garbage_Cancels(g, build_wasm, now, revision) ==
    IF build_wasm THEN g
    ELSE SweepQueries([g EXCEPT !.last_gc = now, !.db.revision = @ + 1],
                      CollectGarbageQueries, CollectGarbageSweep, revision, 1)

\* pub fn collect_garbage(&mut self)
collect_garbage(g, build_wasm, now, revision) ==
    IF build_wasm THEN g
    ELSE SweepQueries([g EXCEPT !.last_gc = now], CollectGarbageQueries,
                      CollectGarbageSweep, revision, 1)

\* let sweep = SweepStrategy::default().discard_values().sweep_all_revisions();
ProfileSweep == sweep_all_revisions(discard_values(SweepStrategy_default))

\* acc.push((name, before - after))
Push(g, name, bytes) ==
    [g EXCEPT !.acc = Append(@, [name |-> name, bytes |-> bytes])]

\* format!("{:?} (deps)", q)
DepsName(q) == q \o " (deps)"

\* Mutant of SweepOneQuery: the discard-everything sweep runs first.
SweepOneQuery_EverythingFirst(g, q, revision) ==
    LET before1 == memory_usage_allocated(g)
        g1      == query_sweep(g, q, discard_everything(ProfileSweep), revision)
        after1  == memory_usage_allocated(g1)
        g2      == Push(g1, q, before1 - after1)
        before2 == memory_usage_allocated(g2)
        g3      == query_sweep(g2, q, ProfileSweep, revision)
        after2  == memory_usage_allocated(g3)
    IN  Push(g3, DepsName(q), before2 - after2)

\* One expansion of the body of sweep_each_query!, for the query q.
SweepOneQuery(g, q, revision) ==
    LET before1 == memory_usage_allocated(g)
        g1      == query_sweep(g, q, ProfileSweep, revision)
        after1  == memory_usage_allocated(g1)
        g2      == Push(g1, q, before1 - after1)
        before2 == memory_usage_allocated(g2)
        g3      == query_sweep(g2, q, discard_everything(ProfileSweep), revision)
        after2  == memory_usage_allocated(g3)
    IN  Push(g3, DepsName(q), before2 - after2)

\* The expansions of sweep_each_query! for queries[lo..hi], in order (the
\* range is halved, and the first half evaluated before the second, to keep
\* the evaluation shallow).
RECURSIVE SweepEachQuery(_, _, _, _, _)
SweepEachQuery(g, queries, revision, lo, hi) ==
    IF lo > hi THEN g
    ELSE IF lo = hi THEN SweepOneQuery(g, queries[lo], revision)
    ELSE LET mid  == (lo + hi) \div 2
             left == SweepEachQuery(g, queries, revision, lo, mid)
         IN  IF Len(left.acc) >= Len(g.acc)
             THEN SweepEachQuery(left, queries, revision, mid + 1, hi)
             ELSE left

\* Mutant of sort_by_key_Reverse: the list is returned in the order pushed.
sort_by_key_Reverse_Unsorted(acc) == acc

\* acc.sort_by_key(|it| std::cmp::Reverse(it.1)): a stable sort, the
\* entries of the greatest bytes first.
RECURSIVE SortFrom(_, _)
SortFrom(acc, keys) ==
    IF keys = {} THEN <<>>
    ELSE LET m == Max(keys)
         IN  SelectSeq(acc, LAMBDA it : it.bytes = m) \o SortFrom(acc, keys \ {m})

sort_by_key_Reverse(acc) == SortFrom(acc, {acc[i].bytes : i \in DOMAIN acc})

\* pub fn per_query_memory_usage(&mut self) -> Vec<(String, Bytes)>
per_query_memory_usage(g, revision) ==
    LET r == SweepEachQuery(g, PerQueryMemoryUsageQueries, revision, 1,
                             Len(PerQueryMemoryUsageQueries))
    IN  [r EXCEPT !.acc = sort_by_key_Reverse(@)]

\* --------------------------------------------------------- the state machine

\* db:       the database (revision clock and input store)
\* pre:      the database as it was when the last call started
\* call:     the last call made on the database and its batch
\* writes:   the engine writes the last call made, in order
\* panicked: the last call panicked (it did not return)
\* readers:  the reader computations (snapshots of the database)
\* wstep:    0 when no apply_change is running, else the position in
\*           ApplyChangeSteps of the block the writer runs next
\* epoch:    per kind of input, the number of the apply_change call whose
\*           block for that kind ran last
\* ncalls:   the number of apply_change calls started by the writer thread
\* wasm:     the build has the "wasm" feature
\* clock:    the time Instant::now() returns, in milliseconds
\* last_gc_check, last_gc: the GC timestamps of the database
\* memo:     the memo tables of the engine, per query
\* allocated: the bytes the allocator has handed out for memo entries
\* gc_pre:   clock, timestamps and memo tables when the last GC or
\*           profiling call started
\* gc_call:  the last operation on the memo tables, and whether the
\*           operation before it was the same
\* sweeps:   the sweeps the last GC or profiling call made, in order
\* report:   what the last per_query_memory_usage call returned
\* batch:    the AnalysisChange a caller is building
\* calls:    the calls made on that batch since AnalysisChange::new(), in
\*           order (the apply_change that consumes it included)
VARIABLES db, pre, call, writes, panicked, readers, wstep, epoch, ncalls,
          wasm, clock, last_gc_check, last_gc, memo, allocated, gc_pre,
          gc_call, sweeps, report, batch, calls

vars == <<db, pre, call, writes, panicked, readers, wstep, epoch, ncalls,
          wasm, clock, last_gc_check, last_gc, memo, allocated, gc_pre,
          gc_call, sweeps, report, batch, calls>>
builder == <<batch, calls>>
conc == <<readers, wstep, epoch, ncalls>>
gcvars == <<wasm, clock, last_gc_check, last_gc, memo, allocated, gc_pre,
            gc_call, sweeps, report>>

Readers == 1..MaxReaders
\* The kinds of input a reader reads, in the order it reads them.
Kinds == <<"roots", "files", "graph">>
Unread == -1
IdleReader ==
    [pc |-> "idle", rev |-> 0, seen |-> [k \in 1..Len(Kinds) |-> Unread]]

\* The GC state of a database right after construction, at clock 0: both
\* timestamps are the time of construction and no query has been computed.
GcState(m, a, check, gc, now) ==
    [memo |-> m, allocated |-> a, last_gc_check |-> check, last_gc |-> gc,
     clock |-> now]

New(build_wasm) ==
    /\ db = EmptyDb
    /\ pre = EmptyDb
    /\ writes = <<>>
    /\ panicked = FALSE
    /\ call = [op |-> "new", change |-> AnalysisChange_new]
    /\ readers = [r \in Readers |-> IdleReader]
    /\ wstep = 0
    /\ epoch = [k \in 1..Len(Kinds) |-> 0]
    /\ ncalls = 0
    /\ wasm = build_wasm
    /\ clock = 0
    /\ last_gc_check = 0
    /\ last_gc = 0
    /\ memo = EmptyMemo
    /\ allocated = 0
    /\ gc_pre = GcState(EmptyMemo, 0, 0, 0, 0)
    /\ gc_call = [op |-> "new", repeat |-> FALSE]
    /\ sweeps = <<>>
    /\ report = <<>>
    /\ batch = AnalysisChange_new
    /\ calls = <<>>

Init == New(FALSE)

Finish(r, op, change) ==
    /\ db' = r.db
    /\ pre' = db
    /\ writes' = r.writes
    /\ panicked' = r.panicked
    /\ call' = [op |-> op, change |-> change]

RequestCancellation ==
    /\ ~panicked
    /\ db.revision + 1 <= MaxRevision
    /\ Finish(request_cancellation(Exec(db)), "request_cancellation",
              AnalysisChange_new)
    /\ UNCHANGED <<builder, conc, gcvars>>

\* A caller builds a batch (set_roots, change_file.., set_crate_graph) and
\* hands it to apply_change.
ApplyChange ==
    /\ ~panicked
    /\ \E roots \in OptRootSets :
         /\ db.revision + 1 + RootsCost(roots) <= MaxRevision
         /\ \E files \in FileChangeSeqs, graph \in OptCrateGraphs :
              LET change == BuildChange(roots, files, graph)
              IN  /\ db.revision + Cost(change) <= MaxRevision
                  /\ Finish(apply_change(Exec(db), change), "apply_change",
                            change)
    /\ UNCHANGED <<builder, conc, gcvars>>

Next == RequestCancellation \/ ApplyChange

Spec == Init /\ [][Next]_vars

\* ------------------------------------------- readers beside the writer

\* One writer thread applies batches block by block while reader
\* computations run: a reader records the revision it starts at, reads the
\* kinds of input one after the other, and at a poll point abandons when the
\* revision clock is no longer the one it recorded.  The cancellation write
\* needs no exclusive access; a block that writes inputs waits until no
\* reader is running.  apply_change borrows the database mutably (&mut
\* self), so no new reader starts while a call is running.

\* The batches the writer applies beside the readers.
ConcBatches ==
    LET root(lib) == [files |-> {1}, is_library |-> lib]
    IN  { AnalysisChange_new,
          set_roots(AnalysisChange_new, <<root(FALSE)>>),
          change_file(AnalysisChange_new, 1, Some("a")),
          set_crate_graph(
              change_file(set_roots(AnalysisChange_new, <<root(TRUE)>>),
                          1, None),
              "g1") }

Running(r) == readers[r].pc = "running"

\* Exclusive write access to the Input Store: no reader is running.
ExclusiveAccess == \A r \in Readers : ~Running(r)

\* The position in Kinds of the kind a block writes (0 for the cancellation).
KindOf(step) ==
    IF \E k \in 1..Len(Kinds) : Kinds[k] = step
    THEN CHOOSE k \in 1..Len(Kinds) : Kinds[k] = step
    ELSE 0

\* Mutant of NoCallRunning: the database is not borrowed exclusively, a
\* reader may start in the middle of a call.
NoCallRunning_Shared == TRUE

\* pub fn apply_change(&mut self, ..): while a call runs nothing else uses
\* the database, so no snapshot is taken from it.
NoCallRunning == wstep = 0

ConcInit == Init

\* A reader computation starts on a snapshot of the database.
ReaderStart(r) ==
    /\ ~panicked
    /\ NoCallRunning
    /\ ~Running(r)
    /\ readers' = [readers EXCEPT ![r] =
                      [IdleReader EXCEPT !.pc = "running", !.rev = db.revision]]
    /\ UNCHANGED <<builder, db, pre, call, writes, panicked, wstep, epoch, ncalls,
                   gcvars>>

\* A running reader reads the next kind of input.
ReaderRead(r) ==
    /\ Running(r)
    /\ \E k \in 1..Len(Kinds) :
          /\ readers[r].seen[k] = Unread
          /\ \A j \in 1..(k - 1) : readers[r].seen[j] # Unread
          /\ readers' = [readers EXCEPT ![r].seen[k] = epoch[k]]
    /\ UNCHANGED <<builder, db, pre, call, writes, panicked, wstep, epoch, ncalls,
                   gcvars>>

\* A reader that has read every kind returns its result.
ReaderReturn(r) ==
    /\ Running(r)
    /\ \A k \in 1..Len(Kinds) : readers[r].seen[k] # Unread
    /\ readers' = [readers EXCEPT ![r].pc = "done"]
    /\ UNCHANGED <<builder, db, pre, call, writes, panicked, wstep, epoch, ncalls,
                   gcvars>>

\* A poll point: the reader finds the revision clock moved and abandons.
ReaderAbandon(r) ==
    /\ Running(r)
    /\ readers[r].rev # db.revision
    /\ readers' = [readers EXCEPT ![r].pc = "abandoned"]
    /\ UNCHANGED <<builder, db, pre, call, writes, panicked, wstep, epoch, ncalls,
                   gcvars>>

\* The writer thread calls apply_change with a batch.
WriterBegin ==
    /\ ~panicked
    /\ wstep = 0
    /\ ncalls < MaxConcCalls
    /\ \E change \in ConcBatches :
          /\ db.revision + Cost(change) <= MaxRevision
          /\ call' = [op |-> "apply_change", change |-> change]
    /\ pre' = db
    /\ writes' = <<>>
    /\ wstep' = 1
    /\ ncalls' = ncalls + 1
    /\ UNCHANGED <<builder, db, panicked, readers, epoch, gcvars>>

\* The writer runs the next block of apply_change.
WriterStep ==
    /\ wstep # 0
    /\ LET step == ApplyChangeSteps[wstep]
           r    == StepEffect(step, [db |-> db, writes |-> writes,
                                     panicked |-> panicked], call.change)
       IN  /\ step = "cancel" \/ ExclusiveAccess
           /\ db' = r.db
           /\ writes' = r.writes
           /\ panicked' = r.panicked
           /\ epoch' = IF KindOf(step) # 0
                       THEN [epoch EXCEPT ![KindOf(step)] = ncalls]
                       ELSE epoch
           /\ wstep' = IF r.panicked \/ wstep = Len(ApplyChangeSteps)
                       THEN 0 ELSE wstep + 1
    /\ UNCHANGED <<builder, pre, call, readers, ncalls, gcvars>>

ConcNext ==
    \/ WriterBegin
    \/ WriterStep
    \/ \E r \in Readers :
          ReaderStart(r) \/ ReaderRead(r) \/ ReaderReturn(r) \/ ReaderAbandon(r)

\* The writer thread runs, and every running reader reaches a poll point.
ConcSpec ==
    /\ ConcInit
    /\ [][ConcNext]_vars
    /\ WF_vars(WriterStep)
    /\ \A r \in Readers : WF_vars(ReaderAbandon(r))

\* ------------------------------------------------------ GC and profiling runs

\* The queries the engine computes in these runs: a table collect_garbage
\* sweeps and one it does not.
ComputedQueries == {"ParseQuery", "MacroExpandQuery"}
\* The bytes of a cached value and of a dependency-edge record.
ValueSizes == {1, 3}
DepsSizes == {2}
\* The clock advances in steps of this many milliseconds.
TickSteps == {50}

GcInit == \E build_wasm \in Builds : New(build_wasm)

\* The state a GC or profiling call runs on (&mut self): the database, the
\* memo tables, the bytes allocated, the GC timestamps, the sweeps made so
\* far and the profiling accumulator.
GcExec ==
    [db |-> db, memo |-> memo, allocated |-> allocated,
     last_gc_check |-> last_gc_check, last_gc |-> last_gc, sweeps |-> <<>>,
     acc |-> <<>>]

GcFinish(g, op) ==
    /\ memo' = g.memo
    /\ allocated' = g.allocated
    /\ last_gc_check' = g.last_gc_check
    /\ last_gc' = g.last_gc
    /\ sweeps' = g.sweeps
    /\ report' = g.acc
    /\ gc_pre' = GcState(memo, allocated, last_gc_check, last_gc, clock)
    /\ gc_call' = [op |-> op, repeat |-> gc_call.op = op]
    /\ db' = g.db
    /\ UNCHANGED <<builder, pre, call, writes, panicked, conc, wasm, clock>>

\* Time passes.
Tick ==
    /\ \E d \in TickSteps :
          /\ clock + d <= MaxClock
          /\ clock' = clock + d
    /\ UNCHANGED <<builder, db, pre, call, writes, panicked, conc, wasm, last_gc_check,
                   last_gc, memo, allocated, gc_pre, gc_call, sweeps, report>>

\* The engine computes a query: the entry gets a value and a dependency
\* record, verified at the current revision.
Compute ==
    /\ \E q \in ComputedQueries, k \in MemoKeys, v \in ValueSizes, d \in DepsSizes :
          LET e == Some(MemoEntry(v, d, db.revision))
              g == [GcExec EXCEPT
                       !.memo[q][k] = e,
                       !.allocated = @ - EntryBytes(memo[q][k]) + EntryBytes(e)]
          IN  GcFinish(g, "compute")

\* request_cancellation in a GC run.
GcRequestCancellation ==
    /\ db.revision < MaxGcRevision
    /\ RequestCancellation

MaybeCollectGarbage ==
    GcFinish(maybe_collect_garbage(GcExec, wasm, clock), "maybe_collect_garbage")

CollectGarbage ==
    GcFinish(collect_garbage(GcExec, wasm, clock, db.revision), "collect_garbage")

PerQueryMemoryUsage ==
    GcFinish(per_query_memory_usage(GcExec, db.revision), "per_query_memory_usage")

GcNext ==
    \/ Tick
    \/ Compute
    \/ GcRequestCancellation
    \/ MaybeCollectGarbage
    \/ CollectGarbage
    \/ PerQueryMemoryUsage

GcSpec == GcInit /\ [][GcNext]_vars

\* ------------------------------------------------------ building a batch

\* A caller makes a batch with AnalysisChange::new(), calls set_roots,
\* change_file and set_crate_graph on it in any order and any number of
\* times, and hands it to apply_change, which consumes it.

\* The arguments of the builder calls of these runs.
BuilderRootSets == {<<[files |-> FileIds, is_library |-> b]>> : b \in BOOLEAN}
BuilderFileChanges == {<<f, Some("a")>> : f \in FileIds} \cup {<<1, None>>}

BuilderCall(op, arg) == [op |-> op, arg |-> arg]

\* The batch was handed to apply_change.
Consumed == calls # <<>> /\ calls[Len(calls)].op = "apply_change"

CanBuild == ~Consumed /\ Len(calls) < MaxBuilderCalls

BuilderStep(change, op, arg) ==
    /\ batch' = change
    /\ calls' = Append(calls, BuilderCall(op, arg))
    /\ UNCHANGED <<db, pre, call, writes, panicked, conc, gcvars>>

\* let mut change = AnalysisChange::new();
NewBatch ==
    /\ calls # <<>>
    /\ ncalls < MaxBatches
    /\ batch' = AnalysisChange_new
    /\ calls' = <<>>
    /\ UNCHANGED <<db, pre, call, writes, panicked, conc, gcvars>>

SetRoots ==
    /\ CanBuild
    /\ \E roots \in BuilderRootSets :
          BuilderStep(set_roots(batch, roots), "set_roots", roots)

ChangeFile ==
    /\ CanBuild
    /\ \E e \in BuilderFileChanges :
          BuilderStep(change_file(batch, e[1], e[2]), "change_file", e)

SetCrateGraph ==
    /\ CanBuild
    /\ \E graph \in CrateGraphs :
          BuilderStep(set_crate_graph(batch, graph), "set_crate_graph", graph)

\* db.apply_change(change)
ApplyBatch ==
    /\ ~Consumed
    /\ ~panicked
    /\ ncalls < MaxBatches
    /\ db.revision + Cost(batch) <= MaxRevision
    /\ Finish(apply_change(Exec(db), batch), "apply_change", batch)
    /\ calls' = Append(calls, BuilderCall("apply_change", 0))
    /\ ncalls' = ncalls + 1
    /\ UNCHANGED <<batch, readers, wstep, epoch, gcvars>>

BatchNext ==
    \/ NewBatch
    \/ SetRoots
    \/ ChangeFile
    \/ SetCrateGraph
    \/ ApplyBatch

BatchSpec == Init /\ [][BatchNext]_vars

\* ------------------------------------------- every operation on one database

\* Batches are applied, work is cancelled, queries are computed, garbage is
\* collected and memory is profiled on the same database while time passes.

\* The batches of these runs: one installs a root, a text and a crate
\* graph, the other resets the text.
DbRoot == [files |-> {1}, is_library |-> FALSE]
DbBatches ==
    {BuildChange(Some(<<DbRoot>>), <<<<1, Some("a")>>>>, Some("g1")),
     BuildChange(None, <<<<1, None>>>>, None)}

DbApplyChange ==
    /\ ~panicked
    /\ \E change \in DbBatches :
          /\ db.revision + Cost(change) <= MaxRevision
          /\ Finish(apply_change(Exec(db), change), "apply_change", change)
    /\ UNCHANGED <<builder, conc, gcvars>>

\* The engine computes ParseQuery at the current revision.
DbCompute ==
    LET e == Some(MemoEntry(1, 2, db.revision))
        g == [GcExec EXCEPT
                 !.memo["ParseQuery"][1] = e,
                 !.allocated = @ - EntryBytes(memo["ParseQuery"][1])
                                 + EntryBytes(e)]
    IN  GcFinish(g, "compute")

DbNext ==
    \/ Tick
    \/ DbCompute
    \/ DbApplyChange
    \/ GcRequestCancellation
    \/ MaybeCollectGarbage
    \/ CollectGarbage
    \/ PerQueryMemoryUsage

DbSpec == GcInit /\ [][DbNext]_vars

\* ------------------------------------------------------------ the claims

\* The last call was apply_change, and it returned.
Applied == call.op = "apply_change" /\ ~panicked

\* The file-text writes of the last call, in order.
FileTextWrites == SelectSeq(writes, LAMBDA w : w.slot = "file_text")

\* The positions of the log that write an input (all but synthetic writes).
InputWrites == {i \in 1..Len(writes) : writes[i].slot # "synthetic_write"}

\* The input store without the revision clock.
Inputs(d) == [d EXCEPT !.revision = 0]

\* C1: every apply_change and every request_cancellation call leaves the
\* revision strictly greater than it found it, an apply_change of an empty
\* batch included; within a call the clock only moves forward, by one per
\* engine write.
C1_MonotonicRevision ==
    [][/\ db'.revision > db.revision
       /\ db'.revision = db.revision + Len(writes')]_vars

\* C1's case: an apply_change of the empty batch made after earlier calls.
C1_Witness ==
    /\ call.op = "apply_change"
    /\ call.change = AnalysisChange_new
    /\ pre.revision >= 2
    /\ db.revision = pre.revision + 1

\* C3: in every apply_change call, returned or panicked, the first engine
\* write is the cancellation write and every input write comes after it;
\* the cancellation write is there when the batch is empty too.
C3_CancellationFirst ==
    call.op = "apply_change" =>
        /\ Len(writes) >= 1
        /\ writes[1] = Write("synthetic_write", 0, "LOW")
        /\ \A i \in InputWrites : i > 1

\* C3's case: a batch with roots, a file entry and a crate graph was applied.
C3_Witness ==
    /\ Applied
    /\ IsSome(call.change.roots)
    /\ Len(Unwrap(call.change.roots)) >= 1
    /\ Len(call.change.files_changed) >= 1
    /\ IsSome(call.change.crate_graph)
    /\ Len(writes) >= 6

\* C5: request_cancellation makes exactly one engine write, a synthetic
\* write at LOW, and changes no input slot: only the revision moves.
C5_CancellationFrame ==
    call.op = "request_cancellation" =>
        /\ writes = <<Write("synthetic_write", 0, "LOW")>>
        /\ Inputs(db) = Inputs(pre)
        /\ db.revision = pre.revision + 1
        /\ ~panicked

\* C5's case: request_cancellation on a database whose inputs are set.
C5_Witness ==
    /\ call.op = "request_cancellation"
    /\ IsSome(db.crate_graph)
    /\ IsSome(db.local_roots)
    /\ \E f \in FileIds : IsSome(db.file_text[f]) /\ IsSome(db.file_source_root[f])

\* The is_library flag of the source root file f maps to in database d.
IsLibraryFile(d, f) ==
    Unwrap(d.source_root[Unwrap(d.file_source_root[f]).value]).value.is_library

\* C6: apply_change writes one file text per files-changed entry, in order,
\* and the write for entry (f, text) is at HIGH when the source root f maps
\* to is a library, at LOW when it is not.  (The roots part of the batch is
\* applied before the entries and nothing after it touches roots, so the
\* mapping at the end of the call is the mapping the entry saw.)
C6_TextDurabilityByRoot ==
    call.op = "apply_change" =>
        /\ Len(FileTextWrites) <= Len(call.change.files_changed)
        /\ ~panicked => Len(FileTextWrites) = Len(call.change.files_changed)
        /\ \A i \in 1..Len(FileTextWrites) :
              LET f == call.change.files_changed[i][1]
              IN  /\ FileTextWrites[i].key = f
                  /\ IsLibraryFile(db, f) => FileTextWrites[i].durability = "HIGH"
                  /\ ~IsLibraryFile(db, f) => FileTextWrites[i].durability = "LOW"

\* C6's case: one batch wrote a text of a library file and of a local file.
C6_Witness ==
    /\ Applied
    /\ \E i, j \in 1..Len(FileTextWrites) :
          /\ FileTextWrites[i].durability = "HIGH"
          /\ IsLibraryFile(db, call.change.files_changed[i][1])
          /\ FileTextWrites[j].durability = "LOW"
          /\ ~IsLibraryFile(db, call.change.files_changed[j][1])

\* The positions of the incoming roots that hold file f.
RootsHolding(roots, f) == {p \in 1..Len(roots) : f \in roots[p].files}

\* C7: when the batch replaces the roots and changes the text of a file f
\* of an incoming root, the text write has the durability of the root this
\* batch assigns f to (the last incoming root holding f), whatever f was
\* mapped to before the call.
C7_TextDurabilityByNewRoot ==
    (call.op = "apply_change" /\ IsSome(call.change.roots)) =>
        \A i \in 1..Len(call.change.files_changed) :
            LET roots == Unwrap(call.change.roots)
                f     == call.change.files_changed[i][1]
            IN  (RootsHolding(roots, f) # {} /\ ~panicked) =>
                    /\ i <= Len(FileTextWrites)
                    /\ FileTextWrites[i].durability =
                          (IF roots[Max(RootsHolding(roots, f))].is_library
                           THEN "HIGH" ELSE "LOW")

\* C7's case: f was mapped to a library root before the call, the batch
\* moves it to a local root and changes its text.
C7_Witness ==
    /\ Applied
    /\ IsSome(call.change.roots)
    /\ \E i \in 1..Len(call.change.files_changed) :
          LET roots == Unwrap(call.change.roots)
              f     == call.change.files_changed[i][1]
          IN  /\ RootsHolding(roots, f) # {}
              /\ ~roots[Max(RootsHolding(roots, f))].is_library
              /\ IsSome(pre.file_source_root[f])
              /\ IsLibraryFile(pre, f)
              /\ FileTextWrites[i].durability = "LOW"

\* The positions of the batch's entries for file f.
EntriesOf(f) ==
    {i \in 1..Len(call.change.files_changed) : call.change.files_changed[i][1] = f}

\* C8: an entry (f, none) sets f's text to the empty string and does not
\* remove f: after the call f's text is set and empty (when that entry is the
\* last one for f), f still has a root mapping, the entries write nothing
\* but file texts, and a batch without roots leaves f's mapping as it was.
C8_NoTextIsEmptyText ==
    Applied =>
        /\ \A f \in FileIds :
              EntriesOf(f) # {} =>
                 /\ IsSome(db.file_text[f])
                 /\ IsSome(db.file_source_root[f])
                 /\ ~IsSome(call.change.roots) =>
                        db.file_source_root[f] = pre.file_source_root[f]
                 /\ call.change.files_changed[Max(EntriesOf(f))][2] = None =>
                        Unwrap(db.file_text[f]).value = ""
        /\ \A i, j \in 1..Len(writes) :
              (writes[i].slot = "file_text" /\ i < j) =>
                  writes[j].slot \in {"file_text", "crate_graph"}

\* C8's case: f had a non-empty text and an entry (f, none) was applied.
C8_Witness ==
    /\ Applied
    /\ \E f \in FileIds :
          /\ EntriesOf(f) # {}
          /\ call.change.files_changed[Max(EntriesOf(f))][2] = None
          /\ IsSome(pre.file_text[f])
          /\ Unwrap(pre.file_text[f]).value = "a"
          /\ Unwrap(db.file_text[f]).value = ""
          /\ db.file_source_root[f] = pre.file_source_root[f]

\* C9: after an apply_change that replaces the roots with r_0..r_(N-1),
\* local_roots is the set of the ids of the roots that are not libraries and
\* library_roots the set of the ids of those that are, both written at HIGH.
C9_AggregateRootSets ==
    (call.op = "apply_change" /\ IsSome(call.change.roots)) =>
        LET roots == Unwrap(call.change.roots)
            ids   == 0..(Len(roots) - 1)
        IN  /\ IsSome(db.local_roots) /\ IsSome(db.library_roots)
            /\ Unwrap(db.local_roots).value =
                  {i \in ids : roots[i + 1].is_library = FALSE}
            /\ Unwrap(db.library_roots).value =
                  {i \in ids : roots[i + 1].is_library = TRUE}
            /\ Unwrap(db.local_roots).value \cap Unwrap(db.library_roots).value = {}
            /\ Unwrap(db.local_roots).value \cup Unwrap(db.library_roots).value = ids
            /\ Unwrap(db.local_roots).durability = "HIGH"
            /\ Unwrap(db.library_roots).durability = "HIGH"

\* C9's case: a root set with a local root and a library root replaced an
\* earlier root set.
C9_Witness ==
    /\ Applied
    /\ IsSome(call.change.roots)
    /\ IsSome(pre.local_roots)
    /\ Len(Unwrap(call.change.roots)) = 2
    /\ Unwrap(db.local_roots).value = {1}
    /\ Unwrap(db.library_roots).value = {0}
    /\ Unwrap(pre.local_roots).value # {1}

\* The ids of the root set database d holds: those of its aggregate sets.
CurrentRootIds(d) ==
    IF IsSome(d.local_roots) /\ IsSome(d.library_roots)
    THEN Unwrap(d.local_roots).value \cup Unwrap(d.library_roots).value
    ELSE {}

\* File f belongs to a root of the root set database d holds.
InCurrentRoots(d, f) ==
    \E i \in CurrentRootIds(d) : f \in Unwrap(d.source_root[i]).value.files

\* C10: apply_change panics when a files-changed entry names a file that is
\* in no root of the installed root set (no root set installed, or the file
\* in none of its roots, a file of an earlier root set included).
C10_UnresolvableFilePanics ==
    (/\ call.op = "apply_change"
     /\ \E i \in 1..Len(call.change.files_changed) :
           ~InCurrentRoots(db, call.change.files_changed[i][1]))
    => panicked

\* C2: a reader that returns a result has read every kind of input as of
\* the same apply_change call: none updated by a batch and another not yet.
C2_ReadersSeeWholeBatches ==
    \A r \in Readers :
        readers[r].pc = "done" =>
            \A j, k \in 1..Len(Kinds) : readers[r].seen[j] = readers[r].seen[k]

\* C2's case: while an apply_change is waiting for the readers, one reader
\* has returned a result read at the revision before the call and another
\* has abandoned.
C2_Witness ==
    /\ wstep > 1
    /\ \E r1, r2 \in Readers :
          /\ readers[r1].pc = "done"
          /\ readers[r1].rev < db.revision
          /\ readers[r1].seen[1] = ncalls - 1
          /\ readers[r2].pc = "abandoned"

\* C4: an apply_change call that has started ends: the writer is not
\* blocked forever by the readers that were running when it was called.
C4_WriterCompletes == (wstep # 0) ~> (wstep = 0)

\* C4's case: a call with input writes returned after a reader that was
\* running when it started abandoned.
C4_Witness ==
    /\ wstep = 0
    /\ call.op = "apply_change"
    /\ ~panicked
    /\ Len(writes) > 1
    /\ \E r \in Readers :
          /\ readers[r].pc = "abandoned"
          /\ readers[r].rev = pre.revision

\* C11: an apply_change call that panics on a files-changed entry whose
\* source root cannot be resolved leaves every input as it was before the
\* call: source roots, file-to-root mappings, local_roots, library_roots,
\* file texts and crate graph.
C11_AbortLeavesInputs ==
    (call.op = "apply_change" /\ panicked) => Inputs(db) = Inputs(pre)

\* ------------------------------------------------- the claims on GC runs

\* The tables the last GC or profiling call swept.
SweptQueries == {sweeps[i].query : i \in DOMAIN sweeps}

\* Table q holds a cached value in the memo tables m.
HoldsValue(m, q) ==
    \E k \in MemoKeys : m[q][k] # None /\ IsSome(Unwrap(m[q][k]).value)

\* The memo tables m are what a values-only sweep of all revisions of the
\* tables of collect_garbage leaves of the memo tables m0: in those tables
\* no entry has a value and every entry has the dependency record and the
\* revision it had, and the other tables are as they were.
ValuesSwept(m0, m) ==
    \A q \in Queries, k \in MemoKeys :
        IF q \in Range(CollectGarbageQueries) /\ m0[q][k] # None
        THEN /\ m[q][k] # None
             /\ Unwrap(m[q][k]).value = None
             /\ Unwrap(m[q][k]).deps = Unwrap(m0[q][k]).deps
             /\ Unwrap(m[q][k]).verified_at = Unwrap(m0[q][k]).verified_at
        ELSE m[q][k] = m0[q][k]

\* C12, as claimed: collect_garbage sweeps every table of its list whenever
\* it is called, discards the values of all revisions and keeps the
\* dependency records, and sets last_gc to the time of the call.
C12_CollectGarbageSweeps ==
    gc_call.op = "collect_garbage" =>
        /\ [i \in DOMAIN sweeps |-> sweeps[i].query] = CollectGarbageQueries
        /\ ValuesSwept(gc_pre.memo, memo)
        /\ last_gc = gc_pre.clock

\* C12, amended: in a build without the "wasm" feature collect_garbage does
\* all of the above (each sweep with the values-only, all-revisions
\* strategy, whatever last_gc was); in a build with the feature it returns
\* at once: no table is swept and last_gc keeps its value.
C12_CollectGarbageSweepsUnlessWasm ==
    gc_call.op = "collect_garbage" =>
        IF wasm
        THEN /\ sweeps = <<>>
             /\ memo = gc_pre.memo
             /\ last_gc = gc_pre.last_gc
        ELSE /\ [i \in DOMAIN sweeps |-> sweeps[i].query] = CollectGarbageQueries
             /\ \A i \in DOMAIN sweeps :
                   sweeps[i].strategy =
                       [discard_if |-> "Always", discard_what |-> "Values"]
             /\ ValuesSwept(gc_pre.memo, memo)
             /\ last_gc = gc_pre.clock
             /\ last_gc_check = gc_pre.last_gc_check

\* C12's case: collect_garbage ran a second time at the very time of the
\* run before it, on a table holding a value verified at the current
\* revision and on a table it does not sweep that holds a value too.
C12_Witness ==
    /\ gc_call.op = "collect_garbage"
    /\ ~wasm
    /\ gc_pre.clock > 0
    /\ gc_pre.last_gc = gc_pre.clock
    /\ \E k \in MemoKeys :
          /\ gc_pre.memo["ParseQuery"][k] # None
          /\ IsSome(Unwrap(gc_pre.memo["ParseQuery"][k]).value)
          /\ Unwrap(gc_pre.memo["ParseQuery"][k]).verified_at = db.revision
          /\ db.revision > 0
          /\ Unwrap(memo["ParseQuery"][k]).value = None
    /\ HoldsValue(memo, "MacroExpandQuery")

\* C13: a collect_garbage run that follows a collect_garbage run, with no
\* computation and no other GC or profiling call between the two (time may
\* pass, the revision may move), leaves the memo tables, values and
\* dependency records alike, as the first run left them and reclaims zero
\* bytes.
C13_SecondRunReclaimsNothing ==
    (gc_call.op = "collect_garbage" /\ gc_call.repeat) =>
        /\ memo = gc_pre.memo
        /\ memory_usage_allocated(gc_pre) - allocated = 0

\* C13's case: the first run discarded a value, time passed, and the
\* second run found the entry with its dependency record only.
C13_Witness ==
    /\ gc_call.op = "collect_garbage"
    /\ gc_call.repeat
    /\ ~wasm
    /\ gc_pre.clock - gc_pre.last_gc > GC_COOLDOWN
    /\ \E k \in MemoKeys :
          /\ memo["ParseQuery"][k] # None
          /\ Unwrap(memo["ParseQuery"][k]).value = None
    /\ allocated > 0

\* The time since last_gc_check when the last call was made.
ElapsedAtCall == elapsed(gc_pre.last_gc_check, gc_pre.clock)

\* C14: a maybe_collect_garbage call made more than GC_COOLDOWN after
\* last_gc_check, in a build without the "wasm" feature, sets last_gc_check
\* to the time of the call and sweeps the memo tables: no table of the
\* collect_garbage list holds a cached value after it.
C14_SweepAfterCooldown ==
    (/\ gc_call.op = "maybe_collect_garbage"
     /\ ~wasm
     /\ ElapsedAtCall > GC_COOLDOWN) =>
        /\ last_gc_check = gc_pre.clock
        /\ \A q \in Range(CollectGarbageQueries) : ~HoldsValue(memo, q)

\* C15: a maybe_collect_garbage call made no more than GC_COOLDOWN after
\* last_gc_check sweeps nothing and leaves last_gc_check, last_gc and the
\* memo tables as they were.
C15_NoSweepWithinCooldown ==
    (gc_call.op = "maybe_collect_garbage" /\ ElapsedAtCall <= GC_COOLDOWN) =>
        /\ sweeps = <<>>
        /\ last_gc_check = gc_pre.last_gc_check
        /\ last_gc = gc_pre.last_gc
        /\ memo = gc_pre.memo
        /\ memory_usage_allocated(gc_pre) - allocated = 0

\* C15's case: the second of two maybe_collect_garbage calls, made exactly
\* GC_COOLDOWN after last_gc_check while a table of the collect_garbage
\* list holds a value.
C15_Witness ==
    /\ gc_call.op = "maybe_collect_garbage"
    /\ gc_call.repeat
    /\ ~wasm
    /\ ElapsedAtCall = GC_COOLDOWN
    /\ HoldsValue(memo, "ParseQuery")

\* C16, as claimed: per_query_memory_usage sweeps exactly the tables
\* collect_garbage sweeps.
C16_SameTables ==
    gc_call.op = "per_query_memory_usage" =>
        SweptQueries = Range(CollectGarbageQueries)

\* C16, amended: every table collect_garbage sweeps is swept by
\* per_query_memory_usage too, but not the other way round:
\* per_query_memory_usage sweeps the tables of its own, longer list, which
\* holds tables collect_garbage never sweeps.
C16_GcTablesAreProfiled ==
    /\ gc_call.op = "collect_garbage" =>
          /\ SweptQueries \subseteq Range(CollectGarbageQueries)
          /\ SweptQueries \subseteq Range(PerQueryMemoryUsageQueries)
          /\ ~wasm => SweptQueries = Range(CollectGarbageQueries)
    /\ gc_call.op = "per_query_memory_usage" =>
          /\ SweptQueries = Range(PerQueryMemoryUsageQueries)
          /\ Range(CollectGarbageQueries) \subseteq SweptQueries
          /\ SweptQueries \ Range(CollectGarbageQueries) # {}

\* C16's case: a profiling pass emptied a table collect_garbage sweeps and
\* a table it does not sweep, both of which held an entry.
C16_Witness ==
    /\ gc_call.op = "per_query_memory_usage"
    /\ \A q \in {"ParseQuery", "MacroExpandQuery"} :
          /\ q \in SweptQueries
          /\ \E k \in MemoKeys : gc_pre.memo[q][k] # None /\ memo[q][k] = None
    /\ "MacroExpandQuery" \notin Range(CollectGarbageQueries)

\* The positions of the entries of the report labelled name.
Labelled(name) == {i \in DOMAIN report : report[i].name = name}

\* The bytes of the cached values, and of the dependency records, of table
\* q in the memo tables m.
RECURSIVE ValueBytes(_, _, _)
ValueBytes(m, q, k) ==
    IF k > MaxMemoKeys THEN 0
    ELSE (IF m[q][k] # None /\ IsSome(Unwrap(m[q][k]).value)
          THEN Unwrap(Unwrap(m[q][k]).value) ELSE 0) + ValueBytes(m, q, k + 1)

RECURSIVE DepsBytes(_, _, _)
DepsBytes(m, q, k) ==
    IF k > MaxMemoKeys THEN 0
    ELSE (IF m[q][k] # None THEN Unwrap(m[q][k]).deps ELSE 0)
             + DepsBytes(m, q, k + 1)

\* C17: per_query_memory_usage returns two entries per table of its list
\* and no other: one labelled with the table's name, carrying the bytes the
\* values-only sweep of the table gave back (those of its cached values),
\* and one labelled with the name followed by " (deps)", carrying the bytes
\* the discard-everything sweep made right after it gave back (those of the
\* dependency records); the list is in non-increasing order of bytes.
C17_ReportTwoEntriesSorted ==
    gc_call.op = "per_query_memory_usage" =>
        LET queries == PerQueryMemoryUsageQueries
        IN  /\ Len(report) = 2 * Len(queries)
            /\ Len(sweeps) = 2 * Len(queries)
            /\ \A p \in DOMAIN queries :
                  LET q == queries[p]
                  IN  /\ Cardinality(Labelled(q)) = 1
                      /\ Cardinality(Labelled(q \o " (deps)")) = 1
                      /\ \A i \in Labelled(q) :
                            report[i].bytes = ValueBytes(gc_pre.memo, q, 1)
                      /\ \A i \in Labelled(q \o " (deps)") :
                            report[i].bytes = DepsBytes(gc_pre.memo, q, 1)
                      /\ sweeps[2 * p - 1] =
                            [query |-> q,
                             strategy |-> [discard_if |-> "Always",
                                           discard_what |-> "Values"]]
                      /\ sweeps[2 * p] =
                            [query |-> q,
                             strategy |-> [discard_if |-> "Always",
                                           discard_what |-> "Everything"]]
            /\ \A i, j \in DOMAIN report :
                  i < j => report[i].bytes >= report[j].bytes

\* C17's case: the pass found a value of 1 byte in the first table of its
\* list and a value of 3 bytes in a later one, so the report is not in the
\* order the sweeps were made.
C17_Witness ==
    /\ gc_call.op = "per_query_memory_usage"
    /\ ValueBytes(gc_pre.memo, "ParseQuery", 1) = 1
    /\ ValueBytes(gc_pre.memo, "MacroExpandQuery", 1) = 3
    /\ report[1] = [name |-> "MacroExpandQuery", bytes |-> 3]
    /\ report[2] = [name |-> "ParseQuery (deps)", bytes |-> 2]
    /\ report[3] = [name |-> "MacroExpandQuery (deps)", bytes |-> 2]
    /\ report[4] = [name |-> "ParseQuery", bytes |-> 1]
    /\ report[5].bytes = 0

\* C18, as claimed: for every table of the report the bytes of the
\* "(deps)" entry are at least the bytes of the values-only entry.
C18_DepsEntryAtLeastValuesEntry ==
    gc_call.op = "per_query_memory_usage" =>
        \A p \in DOMAIN PerQueryMemoryUsageQueries :
            LET q == PerQueryMemoryUsageQueries[p]
            IN  \A i \in Labelled(q), j \in Labelled(q \o " (deps)") :
                    report[j].bytes >= report[i].bytes

\* The bytes a sweep with the strategy gives back on table q of the memo
\* tables m.
SweepBytes(m, q, strategy) ==
    TableBytes(m[q], 1) - TableBytes(SweepTable(m[q], strategy, db.revision), 1)

\* C18, amended: the "(deps)" entry of a table carries only what the
\* discard-everything sweep gave back after the values-only sweep had run,
\* so it may be smaller than the values-only entry; it is the two entries
\* together, the bytes a discard-everything sweep gives back on the state
\* the values-only sweep started from, that are at least the values-only
\* entry, which carries what a values-only sweep gives back on that state.
C18_BothEntriesAtLeastValuesEntry ==
    gc_call.op = "per_query_memory_usage" =>
        \A p \in DOMAIN PerQueryMemoryUsageQueries :
            LET q == PerQueryMemoryUsageQueries[p]
            IN  \A i \in Labelled(q), j \in Labelled(q \o " (deps)") :
                    /\ report[i].bytes = SweepBytes(gc_pre.memo, q, ProfileSweep)
                    /\ report[i].bytes + report[j].bytes =
                          SweepBytes(gc_pre.memo, q, discard_everything(ProfileSweep))
                    /\ report[i].bytes + report[j].bytes >= report[i].bytes

\* C18's case: a table whose cached value is larger than its dependency
\* record, so its "(deps)" entry is the smaller of the two.
C18_Witness ==
    /\ gc_call.op = "per_query_memory_usage"
    /\ \E i \in Labelled("ParseQuery"), j \in Labelled("ParseQuery (deps)") :
          /\ report[i].bytes = 3
          /\ report[j].bytes = 2
          /\ SweepBytes(gc_pre.memo, "ParseQuery",
                        discard_everything(ProfileSweep)) = 5

\* ---------------------------------------------- the claims on root sets

\* C19: after an apply_change that replaces the root set with N roots, the
\* source roots that resolve are those of the ids 0..N-1 and the files that
\* have a file-to-root mapping are those of the N incoming roots: nothing
\* an earlier root set installed is left.
C19_PreviousRootsDiscarded ==
    (Applied /\ IsSome(call.change.roots)) =>
        LET roots == Unwrap(call.change.roots)
        IN  /\ \A i \in SourceRootIds :
                  IsSome(db.source_root[i]) => i < Len(roots)
            /\ \A f \in FileIds :
                  IsSome(db.file_source_root[f]) => RootsHolding(roots, f) # {}

\* The files of a set in the order the roots loop visits them.
RECURSIVE FilesInOrder(_)
FilesInOrder(files) ==
    IF files = {} THEN <<>>
    ELSE <<Min(files)>> \o FilesInOrder(files \ {Min(files)})

\* The engine writes claimed for the incoming roots from position pos on:
\* per root, one mapping write per file and then the write of the root,
\* all at the root's durability.
RECURSIVE RootWrites(_, _)
RootWrites(roots, pos) ==
    IF pos > Len(roots) THEN <<>>
    ELSE LET d  == IF roots[pos].is_library THEN "HIGH" ELSE "LOW"
             fs == FilesInOrder(roots[pos].files)
         IN  [i \in 1..Len(fs) |->
                 [slot |-> "file_source_root", key |-> fs[i], durability |-> d]]
             \o <<[slot |-> "source_root", key |-> pos - 1, durability |-> d]>>
             \o RootWrites(roots, pos + 1)

\* The database after the iteration of the roots loop for position pos of
\* the last call.
AfterRoot(pos) ==
    InstallRoots(request_cancellation(Exec(pre)),
                 SubSeq(Unwrap(call.change.roots), 1, pos), 1).db

\* C20: an apply_change that replaces the root set writes, for the root at
\* position i (from 0) and in this order, the mapping of every file of the
\* root and then the root under the id i, all at the root's durability
\* (HIGH for a library, LOW otherwise); the iteration for the root leaves
\* each of its files mapped to i and the id i resolving to the root, and
\* so does the call, but for a file that a later incoming root holds too,
\* which the call leaves mapped to the last root that holds it.
C20_RootsInstalledByPosition ==
    (call.op = "apply_change" /\ IsSome(call.change.roots)) =>
        LET roots    == Unwrap(call.change.roots)
            expected == RootWrites(roots, 1)
        IN  /\ Len(writes) >= 1 + Len(expected)
            /\ SubSeq(writes, 2, 1 + Len(expected)) = expected
            /\ \A p \in 1..Len(roots) :
                  LET d == IF roots[p].is_library THEN "HIGH" ELSE "LOW"
                  IN  /\ db.source_root[p - 1] =
                            <<[value |-> roots[p], durability |-> d]>>
                      /\ \A f \in roots[p].files :
                            /\ AfterRoot(p).file_source_root[f] =
                                  <<[value |-> p - 1, durability |-> d]>>
                            /\ Max(RootsHolding(roots, f)) = p =>
                                  db.file_source_root[f] =
                                      <<[value |-> p - 1, durability |-> d]>>

\* C20's case: a local root and a library root, each with a file, replaced
\* an earlier root set.
C20_Witness ==
    /\ Applied
    /\ IsSome(call.change.roots)
    /\ Unwrap(call.change.roots) =
          << [files |-> {2}, is_library |-> FALSE],
             [files |-> {1}, is_library |-> TRUE] >>
    /\ IsSome(pre.local_roots)
    /\ db.file_source_root[1] = <<[value |-> 1, durability |-> "HIGH"]>>
    /\ db.file_source_root[2] = <<[value |-> 0, durability |-> "LOW"]>>
    /\ Unwrap(db.source_root[0]).value.files = {2}

\* ------------------------------------- the claims on batches and frames

\* The positions of the log that write the crate graph.
CrateGraphWrites == {i \in 1..Len(writes) : writes[i].slot = "crate_graph"}

\* C21: an apply_change that returns and whose batch has a crate graph
\* leaves that graph, whole, as the crate graph at HIGH, written once and
\* as the last write of the call, after every root and file-text write; an
\* apply_change whose batch has none writes no crate graph and leaves the
\* slot as it was.
C21_CrateGraphLastAtHigh ==
    call.op = "apply_change" =>
        /\ (IsSome(call.change.crate_graph) /\ ~panicked) =>
              /\ db.crate_graph =
                    <<[value |-> Unwrap(call.change.crate_graph),
                       durability |-> "HIGH"]>>
              /\ CrateGraphWrites = {Len(writes)}
              /\ writes[Len(writes)] =
                    [slot |-> "crate_graph", key |-> 0, durability |-> "HIGH"]
        /\ ~IsSome(call.change.crate_graph) =>
              /\ CrateGraphWrites = {}
              /\ db.crate_graph = pre.crate_graph

\* C21's case: a batch with roots, a file entry and a crate graph replaced
\* another crate graph.
C21_Witness ==
    /\ Applied
    /\ IsSome(call.change.roots)
    /\ Len(call.change.files_changed) >= 1
    /\ call.change.crate_graph = <<"g2">>
    /\ IsSome(pre.crate_graph)
    /\ Unwrap(pre.crate_graph).value = "g1"
    /\ Unwrap(db.crate_graph).value = "g2"
    /\ \E i \in 1..Len(writes) : writes[i].slot = "file_text"

\* The builder calls made on the batch the last apply_change consumed.
Built == SubSeq(calls, 1, Len(calls) - 1)

CallsOf(cs, op) == SelectSeq(cs, LAMBDA c : c.op = op)

\* The argument of the last call of kind op, if there is one.
LastArg(cs, op) ==
    LET k == CallsOf(cs, op)
    IN  IF k = <<>> THEN None ELSE Some(k[Len(k)].arg)

\* The arguments of the change_file calls, in the order they were made.
FileArgs(cs) ==
    LET k == CallsOf(cs, "change_file") IN [i \in 1..Len(k) |-> k[i].arg]

\* The batch by kind: the last roots, the entries in call order, the last
\* crate graph.
ByKind(cs) ==
    [roots |-> LastArg(cs, "set_roots"), files_changed |-> FileArgs(cs),
     crate_graph |-> LastArg(cs, "set_crate_graph")]

\* Writes come in this order: cancellation, roots, file texts, crate graph.
KindRank(w) ==
    CASE w.slot = "synthetic_write" -> 0
      [] w.slot = "file_text" -> 2
      [] w.slot = "crate_graph" -> 3
      [] OTHER -> 1

\* C22: however the set_roots, change_file and set_crate_graph calls that
\* built a batch were interleaved, the batch holds the roots of the last
\* set_roots call, the entries of the change_file calls in call order and
\* the graph of the last set_crate_graph call; apply_change leaves the
\* input store as it would for that by-kind batch, writes roots before
\* file texts before the crate graph (so an entry for a file of the roots
\* of the batch resolves, wherever its change_file call came), and writes
\* the file texts in the order of the change_file calls.
C22_AppliedByKind ==
    Consumed =>
        LET expected == apply_change(Exec(pre), ByKind(Built))
        IN  /\ call.change = ByKind(Built)
            /\ db = expected.db
            /\ panicked = expected.panicked
            /\ \A i, j \in 1..Len(writes) :
                  i < j => KindRank(writes[i]) <= KindRank(writes[j])
            /\ (/\ IsSome(ByKind(Built).roots)
                /\ \A i \in 1..Len(FileArgs(Built)) :
                      RootsHolding(Unwrap(ByKind(Built).roots),
                                   FileArgs(Built)[i][1]) # {})
                  => ~panicked
            /\ Len(FileTextWrites) <= Len(FileArgs(Built))
            /\ ~panicked => Len(FileTextWrites) = Len(FileArgs(Built))
            /\ \A i \in 1..Len(FileTextWrites) :
                  FileTextWrites[i].key = FileArgs(Built)[i][1]

\* C22's case: change_file and set_crate_graph were called before the
\* last of two different set_roots calls, and the batch was applied with
\* the roots of the last one.
C22_Witness ==
    /\ Consumed
    /\ ~panicked
    /\ Len(calls) = 5
    /\ calls[1].op = "change_file"
    /\ calls[1].arg[1] = 2
    /\ calls[2].op = "set_roots"
    /\ calls[3].op = "set_crate_graph"
    /\ calls[4].op = "set_roots"
    /\ calls[4].arg # calls[2].arg
    /\ IsSome(db.source_root[0])
    /\ Unwrap(db.source_root[0]).value = calls[4].arg[1]
    /\ writes[Len(writes)].slot = "crate_graph"
    /\ writes[Len(writes) - 1].slot = "file_text"

\* The GC timestamps.
timestamps == <<last_gc_check, last_gc>>

\* C23: a step of apply_change, request_cancellation or
\* per_query_memory_usage leaves last_gc_check and last_gc as they were, a
\* step of maybe_collect_garbage leaves last_gc as it was and a step of
\* collect_garbage leaves last_gc_check as it was.
C23_TimestampsFrame ==
    [][/\ \/ UNCHANGED timestamps
          \/ ~(DbApplyChange \/ GcRequestCancellation \/ PerQueryMemoryUsage)
       /\ \/ last_gc' = last_gc
          \/ ~MaybeCollectGarbage
       /\ \/ last_gc_check' = last_gc_check
          \/ ~CollectGarbage]_vars

\* C23's case: collect_garbage stamped last_gc and left last_gc_check at
\* its construction value, a later maybe_collect_garbage stamped
\* last_gc_check and left last_gc, and a batch was applied and memory was
\* profiled with the two stamps in place.
C23_Witness ==
    /\ Applied
    /\ db.revision > 1
    /\ gc_call.op = "per_query_memory_usage"
    /\ gc_pre.last_gc = 50
    /\ gc_pre.last_gc_check = 150
    /\ last_gc = 50
    /\ last_gc_check = 150
    /\ report # <<>>
    /\ gc_pre.allocated > allocated

\* C24: a step of maybe_collect_garbage, collect_garbage or
\* per_query_memory_usage leaves the revision clock and every input slot
\* as they were.
C24_GcLeavesInputs ==
    [][\/ db' = db
       \/ ~(MaybeCollectGarbage \/ CollectGarbage \/ PerQueryMemoryUsage)]_vars

\* C24's case: roots, a file text and a crate graph are installed, a query
\* was computed at the revision of that batch, and collect_garbage swept
\* its value with the inputs in place.
C24_Witness ==
    /\ Applied
    /\ IsSome(db.source_root[0])
    /\ IsSome(db.file_source_root[1])
    /\ IsSome(db.local_roots)
    /\ IsSome(db.library_roots)
    /\ IsSome(db.file_text[1])
    /\ IsSome(db.crate_graph)
    /\ gc_call.op = "collect_garbage"
    /\ sweeps # <<>>
    /\ gc_pre.allocated > allocated
    /\ memo["ParseQuery"][1] # None
    /\ Unwrap(memo["ParseQuery"][1]).value = None
    /\ Unwrap(memo["ParseQuery"][1]).verified_at = db.revision

\* C25: an apply_change whose batch has no roots leaves every source root,
\* every file-to-root mapping, local_roots and library_roots as they were
\* and leaves the text slot of every file its entries do not name as it
\* was; when it returns, the text of a file its entries name is the text of
\* the last entry for that file (the empty string when that entry has no
\* text).
C25_NoRootsFrame ==
    (call.op = "apply_change" /\ ~IsSome(call.change.roots)) =>
        /\ db.source_root = pre.source_root
        /\ db.file_source_root = pre.file_source_root
        /\ db.local_roots = pre.local_roots
        /\ db.library_roots = pre.library_roots
        /\ \A f \in FileIds :
              EntriesOf(f) = {} => db.file_text[f] = pre.file_text[f]
        /\ ~panicked =>
              \A f \in FileIds :
                 EntriesOf(f) # {} =>
                    /\ IsSome(db.file_text[f])
                    /\ Unwrap(db.file_text[f]).value =
                          unwrap_or_default(
                              call.change.files_changed[Max(EntriesOf(f))][2])

\* C25's case: a batch without roots named file 1 twice, with a text and
\* then without, and did not name file 2, which has a text and keeps it.
C25_Witness ==
    /\ Applied
    /\ ~IsSome(call.change.roots)
    /\ call.change.files_changed = <<<<1, <<"a">>>>, <<1, <<>>>>>>
    /\ Unwrap(db.file_text[1]).value = ""
    /\ IsSome(pre.file_text[2])
    /\ Unwrap(pre.file_text[2]).value = "a"
    /\ db.file_text[2] = pre.file_text[2]
    /\ IsSome(db.local_roots)
    /\ db.source_root = pre.source_root

====
